---- MODULE Spec2Model ----
(***************************************************************************)
(* Model of maximum_value.py: the 0-1 knapsack dispatcher maximum_value,   *)
(* the brute-force solver maximum_value_naive, the memoized dynamic        *)
(* programming solver maximum_value_dynamic_solution_memoized (with its    *)
(* nested recursive function m run step by step on an explicit call        *)
(* stack) and the greedy approximation maximum_value_greedy_approx.        *)
(*                                                                         *)
(* A caller owns one list of order records and calls the solvers on it,    *)
(* one call after the other, with capacities of its choice.                *)
(***************************************************************************)
EXTENDS Integers, Sequences, FiniteSets

\* ---- bounds of the model ----
MaxOrders == 2
MaxValue == 2
MaxWeight == 2
MaxCap == 2

\* ---- order records ----
\* An order as the caller builds it: a dict with the keys value and weight.
Order(val, wgt) == [value |-> val, weight |-> wgt]

Orders == { Order(val, wgt) : val \in 0..MaxValue, wgt \in 0..MaxWeight }

OrderLists == UNION { [1..n -> Orders] : n \in 0..MaxOrders }

Capacities == 0..MaxCap

\* The -1 of the table's initial fill: "cell not computed yet".
Sentinel == -1

\* Python's max(a, b) of two numbers.
\* (mutant: the exclusion alternative is forgotten)
Best_include_only(a, b) == b

Best(a, b) == IF a >= b THEN a ELSE b

\* ---- Counter arithmetic: reduce(add, map(Counter, orders)) ----
RECURSIVE SumField(_, _, _)
SumField(s, k, f) ==
    IF k = 0 THEN 0
    ELSE SumField(s, k - 1, f) + (IF f = "weight" THEN s[k].weight ELSE s[k].value)

\* Counter addition keeps only the keys whose sum is positive, and reading a
\* missing key of a Counter gives 0.
CounterGet(total) == IF total > 0 THEN total ELSE 0

Payload(s) ==
    [weight |-> CounterGet(SumField(s, Len(s), "weight")),
     value  |-> CounterGet(SumField(s, Len(s), "value"))]

\* ---- the filter "remove orders that are too big by themselves" ----
\* (mutant: the comparison is off by one)
NotTooBig_strict(order, maximum_weight) == ~(order.weight >= maximum_weight)

NotTooBig(order, maximum_weight) == ~(order.weight > maximum_weight)

Filtered(ords, maximum_weight) ==
    SelectSeq(ords, LAMBDA order : NotTooBig(order, maximum_weight))

\* ---- maximum_value_naive ----
\* itertools.combinations(s, length): the sub-sequences of s of that length,
\* each given by the set of positions it takes.
Combinations(s, length) ==
    { S \in SUBSET (1..Len(s)) : Cardinality(S) = length }

RECURSIVE Combination(_, _, _)
Combination(s, S, k) ==
    IF k = 0 THEN << >>
    ELSE IF k \in S THEN Append(Combination(s, S, k - 1), s[k])
         ELSE Combination(s, S, k - 1)

\* The inner loop over the combinations of one length: max_payload_value is
\* replaced by every feasible payload value strictly greater than it.
NaiveInner(s, maximum_weight, length, max_payload_value) ==
    LET feasible == { Payload(Combination(s, S, Len(s))).value :
                        S \in { T \in Combinations(s, length) :
                                  Payload(Combination(s, T, Len(s))).weight
                                      <= maximum_weight } }
        all == feasible \cup {max_payload_value}
    IN  CHOOSE x \in all : \A y \in all : x >= y

\* The outer loop: for length in range(len(orders_filtered), 0, -1).
RECURSIVE NaiveOuter(_, _, _, _)
NaiveOuter(s, maximum_weight, length, max_payload_value) ==
    IF length = 0 THEN max_payload_value
    ELSE NaiveOuter(s, maximum_weight, length - 1,
                    NaiveInner(s, maximum_weight, length, max_payload_value))

maximum_value_naive(ords, maximum_weight) ==
    LET orders_filtered == Filtered(ords, maximum_weight)
    IN  NaiveOuter(orders_filtered, maximum_weight, Len(orders_filtered), 0)

\* ---- maximum_value_dynamic_solution_memoized ----
w(ords, i) == ords[i].weight

v(ords, i) == ords[i].value

\* The first test of m: no items left or no capacity left.
\* (mutant: the capacity test is dropped)
BaseCase_items_only(i, j) == i = 0

BaseCase(i, j) == i = 0 \/ j <= 0

TooHeavy(ords, i, j) == w(ords, i) > j

\* The tests "value[i][j] == -1" that guard the two recursive calls.
\* (mutant: the memo is not consulted)
NotComputed_always(tbl, i, j) == TRUE

NotComputed(tbl, i, j) == tbl[i][j] = Sentinel

\* value = [[-1 for _ in range(W + 1)] for _ in range(n + 1)]
NewTable(n, cap) == [i \in 0..n |-> [j \in 0..cap |-> Sentinel]]

\* The number that a run of m(i, j) stores in value[i][j].
RECURSIVE m(_, _, _)
m(ords, i, j) ==
    IF BaseCase(i, j) THEN 0
    ELSE IF TooHeavy(ords, i, j) THEN m(ords, i - 1, j)
    ELSE Best(m(ords, i - 1, j), m(ords, i - 1, j - w(ords, i)) + v(ords, i))

maximum_value_dynamic_solution_memoized(ords, maximum_weight) ==
    m(ords, Len(ords), maximum_weight)

\* ---- maximum_value_greedy_approx ----
\* order.update(ratio=order['value']/order['weight']): the quotient is kept
\* as the pair (numerator, denominator).
WithRatio(order) ==
    [value |-> order.value, weight |-> order.weight,
     ratio |-> <<order.value, order.weight>>]

\* Position of the first order that passes the filter and has weight 0: the
\* division of line 92 raises ZeroDivisionError there. Len + 1 when none.
FirstZeroDivision(ords, maximum_weight) ==
    LET bad == { k \in 1..Len(ords) :
                   NotTooBig(ords[k], maximum_weight) /\ ords[k].weight = 0 }
    IN  IF bad = {} THEN Len(ords) + 1
        ELSE CHOOSE k \in bad : \A l \in bad : k <= l

\* The caller's records after the list comprehension of line 92: the
\* filtered orders share the caller's dicts, so update() changes them, one
\* by one, until the division raises.
UpdateRatios(ords, maximum_weight) ==
    [k \in 1..Len(ords) |->
        IF NotTooBig(ords[k], maximum_weight)
           /\ k < FirstZeroDivision(ords, maximum_weight)
        THEN WithRatio(ords[k]) ELSE ords[k]]

\* a's ratio is smaller than b's (both denominators positive).
RatioLess(a, b) == a.ratio[1] * b.ratio[2] < b.ratio[1] * a.ratio[2]

\* sorted(..., key=ratio, reverse=True): stable, so orders of equal ratio
\* keep the order they have in the input.
RECURSIVE SortedByRatio(_, _)
SortedByRatio(s, k) ==
    IF k = 0 THEN << >>
    ELSE LET before == SortedByRatio(s, k - 1)
             x == s[k]
             keep == Cardinality({ p \in 1..Len(before) : ~RatioLess(before[p], x) })
         IN  SubSeq(before, 1, keep) \o <<x>> \o SubSeq(before, keep + 1, Len(before))

\* The loop of lines 100-106 from position k of the sorted orders on.
RECURSIVE GreedyFill(_, _, _, _)
GreedyFill(sorted, maximum_weight, k, final_order) ==
    LET payload == Payload(final_order)
    IN  IF k > Len(sorted) THEN payload.value
        ELSE IF payload.weight = maximum_weight THEN payload.value
        ELSE IF payload.weight + sorted[k].weight > maximum_weight
             THEN GreedyFill(sorted, maximum_weight, k + 1, final_order)
        ELSE GreedyFill(sorted, maximum_weight, k + 1, Append(final_order, sorted[k]))

\* The outcome of one call: what it raises (or "none"), what it returns, and
\* the caller's orders afterwards.
maximum_value_greedy_approx(ords, maximum_weight) ==
    LET filtered_orders == Filtered(ords, maximum_weight)
        updated == UpdateRatios(ords, maximum_weight)
        sorted_filtered_orders ==
            LET f == Filtered(updated, maximum_weight)
            IN  SortedByRatio(f, Len(f))
    IN  IF Len(filtered_orders) = 0
        THEN [raised |-> "none", result |-> 0, orders |-> ords]
        ELSE IF FirstZeroDivision(ords, maximum_weight) <= Len(ords)
        THEN [raised |-> "ZeroDivisionError", result |-> 0, orders |-> updated]
        ELSE [raised |-> "none",
              result |-> GreedyFill(sorted_filtered_orders, maximum_weight, 2,
                                    <<sorted_filtered_orders[1]>>),
              orders |-> updated]

\* ---- maximum_value: the solver it delegates to ----
\* (mutant: the commented-out size test of lines 15-16 is active)
Delegate_by_size(ords) == IF Len(ords) > 1 THEN "greedy" ELSE "memoized"

Delegate(ords) == "memoized"

\* What a call of solver s on (ords, maximum_weight) raises and returns.
SolverOutcome(s, ords, maximum_weight) ==
    IF s = "naive"
    THEN [raised |-> "none", result |-> maximum_value_naive(ords, maximum_weight)]
    ELSE IF s = "memoized"
    THEN [raised |-> "none",
          result |-> maximum_value_dynamic_solution_memoized(ords, maximum_weight)]
    ELSE LET out == maximum_value_greedy_approx(ords, maximum_weight)
         IN  [raised |-> out.raised, result |-> out.result]

maximum_value(ords, maximum_weight) ==
    SolverOutcome(Delegate(ords), ords, maximum_weight).result

\* ---- state ----
VARIABLES
    orders,   \* the caller's list of order records
    W,        \* maximum_weight of the current (or last) call
    entry,    \* the function the caller called
    solver,   \* the solver that runs (or ran) the call
    pc,       \* "idle", "running", "returned" or "raised"
    result,   \* the returned number, when pc = "returned"
    value,    \* the table of the memoized solver
    stack,    \* the call stack of m: frames (i, j, line reached)
    invoked   \* per cell, how many times m(i, j) was called in this call

vars == <<orders, W, entry, solver, pc, result, value, stack, invoked>>

NoTable == << >>

Frame(i, j, at) == [i |-> i, j |-> j, at |-> at]

Top == stack[Len(stack)]

Pop == SubSeq(stack, 1, Len(stack) - 1)

\* Top moves on to line `at`, and m(i, j) is called when `call` holds.
CallIf(call, i, j, at) ==
    LET moved == [stack EXCEPT ![Len(stack)].at = at]
    IN  /\ stack' = IF call THEN Append(moved, Frame(i, j, "l58")) ELSE moved
        /\ invoked' = IF call THEN [invoked EXCEPT ![i][j] = @ + 1] ELSE invoked

Init ==
    /\ orders \in OrderLists
    /\ W = 0
    /\ entry = "none"
    /\ solver = "none"
    /\ pc = "idle"
    /\ result = 0
    /\ value = NoTable
    /\ stack = << >>
    /\ invoked = NoTable

\* A call of solver s with capacity cap, entered through function e. The
\* brute-force and the greedy solver run to their end in one step; the
\* memoized solver builds its table and makes the call m(n, W) of line 72.
Start(e, s, cap) ==
    /\ pc \in {"idle", "returned", "raised"}
    /\ entry' = e
    /\ solver' = s
    /\ W' = cap
    /\ IF s = "memoized"
       THEN /\ pc' = "running"
            /\ result' = 0
            /\ value' = NewTable(Len(orders), cap)
            /\ stack' = <<Frame(Len(orders), cap, "l58")>>
            /\ invoked' = [i \in 0..Len(orders) |-> [j \in 0..cap |->
                              IF i = Len(orders) /\ j = cap THEN 1 ELSE 0]]
            /\ UNCHANGED orders
       ELSE IF s = "naive"
       THEN /\ pc' = "returned"
            /\ result' = maximum_value_naive(orders, cap)
            /\ value' = NoTable
            /\ stack' = << >>
            /\ invoked' = NoTable
            /\ UNCHANGED orders
       ELSE LET out == maximum_value_greedy_approx(orders, cap)
            IN  /\ pc' = IF out.raised = "none" THEN "returned" ELSE "raised"
                /\ result' = out.result
                /\ orders' = out.orders
                /\ value' = NoTable
                /\ stack' = << >>
                /\ invoked' = NoTable

call_maximum_value == \E cap \in Capacities : Start("maximum_value", Delegate(orders), cap)

call_naive == \E cap \in Capacities : Start("maximum_value_naive", "naive", cap)

call_memoized ==
    \E cap \in Capacities :
        Start("maximum_value_dynamic_solution_memoized", "memoized", cap)

call_greedy == \E cap \in Capacities : Start("maximum_value_greedy_approx", "greedy", cap)

\* lines 58-60: the base case stores 0 and returns.
m_base ==
    /\ pc = "running" /\ stack # << >>
    /\ Top.at = "l58"
    /\ BaseCase(Top.i, Top.j)
    /\ value' = [value EXCEPT ![Top.i][Top.j] = 0]
    /\ stack' = Pop
    /\ UNCHANGED <<orders, W, entry, solver, pc, result, invoked>>

\* lines 62-63: compute value[i-1][j] unless the table has it.
m_exclude ==
    /\ pc = "running" /\ stack # << >>
    /\ Top.at = "l58"
    /\ ~BaseCase(Top.i, Top.j)
    /\ CallIf(NotComputed(value, Top.i - 1, Top.j), Top.i - 1, Top.j, "l65")
    /\ UNCHANGED <<orders, W, entry, solver, pc, result, value>>

\* lines 65-66: item i does not fit.
m_too_heavy ==
    /\ pc = "running" /\ stack # << >>
    /\ Top.at = "l65"
    /\ TooHeavy(orders, Top.i, Top.j)
    /\ value' = [value EXCEPT ![Top.i][Top.j] = value[Top.i - 1][Top.j]]
    /\ stack' = Pop
    /\ UNCHANGED <<orders, W, entry, solver, pc, result, invoked>>

\* lines 67-69: compute value[i-1][j-w(i)] unless the table has it.
m_include ==
    /\ pc = "running" /\ stack # << >>
    /\ Top.at = "l65"
    /\ ~TooHeavy(orders, Top.i, Top.j)
    /\ CallIf(NotComputed(value, Top.i - 1, Top.j - w(orders, Top.i)),
              Top.i - 1, Top.j - w(orders, Top.i), "l70")
    /\ UNCHANGED <<orders, W, entry, solver, pc, result, value>>

\* line 70: the better of excluding and including item i.
m_best ==
    /\ pc = "running" /\ stack # << >>
    /\ Top.at = "l70"
    /\ value' = [value EXCEPT ![Top.i][Top.j] =
                    Best(value[Top.i - 1][Top.j],
                         value[Top.i - 1][Top.j - w(orders, Top.i)] + v(orders, Top.i))]
    /\ stack' = Pop
    /\ UNCHANGED <<orders, W, entry, solver, pc, result, invoked>>

\* lines 72-74: m(n, W) has returned; the solver returns value[n][W].
memoized_return ==
    /\ pc = "running" /\ stack = << >>
    /\ result' = value[Len(orders)][W]
    /\ pc' = "returned"
    /\ UNCHANGED <<orders, W, entry, solver, value, stack, invoked>>

Next ==
    \/ call_maximum_value
    \/ call_naive
    \/ call_memoized
    \/ call_greedy
    \/ m_base
    \/ m_exclude
    \/ m_too_heavy
    \/ m_include
    \/ m_best
    \/ memoized_return

Spec == Init /\ [][Next]_vars

\* The step-by-step run of m and the recurrence m agree on the result.
MemoizedRunIsRecurrence ==
    (pc = "returned" /\ solver = "memoized")
        => result = maximum_value_dynamic_solution_memoized(orders, W)

\* ---- vocabulary of the properties ----
Returned == pc = "returned"

RECURSIVE Total(_, _, _)
Total(ords, S, f) ==
    IF S = {} THEN 0
    ELSE LET k == CHOOSE x \in S : TRUE
         IN  (IF f = "weight" THEN ords[k].weight ELSE ords[k].value)
                 + Total(ords, S \ {k}, f)

\* The knapsack optimum: the largest total value of a set of orders whose
\* total weight is at most cap.
Optimum(ords, cap) ==
    LET feasible == { S \in SUBSET (1..Len(ords)) : Total(ords, S, "weight") <= cap }
        best == CHOOSE S \in feasible :
                    \A T \in feasible : Total(ords, S, "value") >= Total(ords, T, "value")
    IN  Total(ords, best, "value")

ZeroWeight(ords) == { k \in 1..Len(ords) : ords[k].weight = 0 }

Rearrangements(ords) ==
    LET n == Len(ords)
        perms == { p \in [1..n -> 1..n] : \A a, b \in 1..n : p[a] = p[b] => a = b }
    IN  { [k \in 1..n |-> ords[p[k]]] : p \in perms }

BaseCells == { c \in (DOMAIN value) \X (0..W) : c[1] = 0 \/ c[2] = 0 }

\* ---- C1 ----
\* C1: maximum_value returns the largest total value of any set of the
\* orders whose total weight is at most maximum_weight.
C1_ReturnsOptimum ==
    (Returned /\ entry = "maximum_value") => result = Optimum(orders, W)

\* ---- C2 ----
\* C2: the memoized solver returns the same value as the brute-force solver.
C2_MemoizedAgreesWithNaive ==
    (Returned /\ solver = "memoized") => result = maximum_value_naive(orders, W)

\* ---- C3 ----
\* C3 as stated: with the threshold set to some t below the largest number
\* of orders, maximum_value delegates to the greedy solver when there are more
\* than t orders and to the memoized solver otherwise.
C3_DelegatesByThreshold ==
    \E t \in 0..(MaxOrders - 1) :
        entry = "maximum_value"
            => solver = (IF Len(orders) > t THEN "greedy" ELSE "memoized")

\* C3 as amended: maximum_value delegates every call to the memoized solver,
\* whatever the number of orders; never to the greedy or brute-force solver.
C3_AlwaysMemoized == entry = "maximum_value" => solver = "memoized"

C3_Witness == Returned /\ entry = "maximum_value" /\ Len(orders) >= 2

\* ---- C4 ----
\* C4: each solver returns the same value on every rearrangement of the
\* orders as on the orders themselves.
C4_OrderIndependent ==
    Returned =>
        \A ords \in Rearrangements(orders) :
            SolverOutcome(solver, ords, W) = [raised |-> "none", result |-> result]

\* ---- C5 ----
\* C5: the greedy solver returns a value, and it is at most the value of
\* the memoized solver.
C5_GreedyIsLowerBound ==
    (solver = "greedy" /\ pc \in {"returned", "raised"})
        => /\ Returned
           /\ result <= maximum_value_dynamic_solution_memoized(orders, W)

\* ---- C6 ----
\* C6: no call changes the caller's orders or any record in them.
C6_OrdersUnchanged == [][orders' = orders]_vars

\* ---- C7 ----
\* C7 as stated: the exact solvers return 0 on no orders and 0 on capacity 0,
\* also when orders of weight 0 have a positive value.
C7_ZeroCasesAlways ==
    (Returned /\ solver \in {"memoized", "naive"})
        => /\ orders = << >> => result = 0
           /\ W = 0 => result = 0

\* C7 as amended: the exact solvers return 0 on no orders, and 0 on capacity
\* 0 when every order of weight 0 has value 0; on capacity 0 the brute-force
\* solver returns the total value of the orders of weight 0.
C7_ZeroCases ==
    (Returned /\ solver \in {"memoized", "naive"})
        => /\ orders = << >> => result = 0
           /\ (W = 0 /\ \A k \in ZeroWeight(orders) : orders[k].value = 0)
                  => result = 0
           /\ (W = 0 /\ solver = "naive")
                  => result = Total(orders, ZeroWeight(orders), "value")

C7_Witness == Returned /\ solver = "naive" /\ W = 0 /\ result > 0

\* ---- C8 ----
\* C8: the value maximum_value returns for a capacity is at most the value
\* it returns for any larger capacity.
C8_MonotoneInCapacity ==
    (Returned /\ entry = "maximum_value")
        => \A W2 \in W..MaxCap : result <= maximum_value(orders, W2)

C8_Witness ==
    /\ Returned /\ entry = "maximum_value"
    /\ W < MaxCap /\ result > 0
    /\ result < maximum_value(orders, MaxCap)

\* ---- C9 ----
\* C9: during one call of the memoized solver m(i, j) is called at most once
\* for each cell, so the cell is written at most once, and a cell that holds
\* a value other than the sentinel keeps it in every later step.
C9_CellsComputedOnce ==
    /\ [](\A i \in DOMAIN invoked : \A j \in DOMAIN invoked[i] : invoked[i][j] <= 1)
    /\ [][pc = "running" =>
            \A i \in DOMAIN value : \A j \in DOMAIN value[i] :
                value[i][j] # Sentinel => value'[i][j] = value[i][j]]_vars

\* m is about to need a cell that the table already holds.
C9_Witness ==
    /\ pc = "running" /\ stack # << >>
    /\ Top.at = "l65"
    /\ ~TooHeavy(orders, Top.i, Top.j)
    /\ ~NotComputed(value, Top.i - 1, Top.j - w(orders, Top.i))

\* ---- C10 ----
\* C10 as stated: when the memoized solver returns, every cell of row 0 and
\* of column 0 of the table holds 0.
C10_BaseCellsAllZero ==
    (Returned /\ solver = "memoized") => \A c \in BaseCells : value[c[1]][c[2]] = 0

\* C10 as amended: when the memoized solver returns, a cell of row 0 or of
\* column 0 holds 0 if m was called for it and the sentinel -1 otherwise.
C10_BaseCellsZeroOrUnset ==
    (Returned /\ solver = "memoized")
        => \A c \in BaseCells :
               value[c[1]][c[2]] = (IF invoked[c[1]][c[2]] > 0 THEN 0 ELSE Sentinel)

C10_Witness ==
    /\ Returned /\ solver = "memoized"
    /\ \E c \in BaseCells : value[c[1]][c[2]] = Sentinel
    /\ \E c \in BaseCells : value[c[1]][c[2]] = 0

====
